---- MODULE Spec2Model ----
(***************************************************************************)
(* Beam alignment: raster-scan generation (get_voltage_array.py), the dip  *)
(* model and its least-squares fit (scan_analysis.py: model,               *)
(* fit_scan_data), the alignment locator (find_alignment_voltages) and the *)
(* script that chains them with the plots of visualizers.py (main.py).     *)
(*                                                                         *)
(* Numbers.  Voltages handed to the functions are integral volts.  Fit     *)
(* parameters are written in hundredths (ParamScale), so the seed 0.1, 2.0, *)
(* 0.1, 2.25, 0.0, 8, 5.8 is written exactly; a parameter c stands for the *)
(* double nearest to c/100, as the literal does in the source.  Every      *)
(* floating-point value of the program is an IEEE double [neg, m, e], the  *)
(* number (-1)^neg * m * 2^e with a 53-bit mantissa m held in 15-bit       *)
(* limbs, or NaN; +, -, * and / round to nearest, ties to even, on the     *)
(* grid of the doubles, the subnormal ones included.  There is no infinity *)
(* (the magnitudes of the program stay far from overflow) and no negative  *)
(* zero; a division by zero is decided where it occurs (model, line 69).   *)
(* np.exp is the exp of the C library, reproduced operation by operation   *)
(* as glibc computes it with fused multiply-adds, so that its last bit is  *)
(* the library's; a build of numpy with an exponential of its own may      *)
(* differ from it in the last bit.                                         *)
(***************************************************************************)
EXTENDS Integers, Sequences, FiniteSets, TLC

VARIABLES
    pc,               \* position of the running entry point
    scan,             \* rows of the scan file read by load_data
    Vx_out,           \* load_data: X voltages of the samples
    Vy_out,           \* load_data: Y voltages of the samples
    power_mW,         \* load_data: measured power, mW
    Vx_min, Vx_max,   \* voltage extrema handed to the functions
    Vy_min, Vy_max,
    Vx_step, Vy_step, \* get_voltage_array: increments
    data,             \* model: the pair of coordinate arrays
    params,           \* the 7 parameters (alpha, a, beta, b, delta, d, const)
    xgrid, ygrid,     \* fit_scan_data: the evaluation mesh
    fit,              \* the modelled power values (model's return value)
    ier,              \* curve_fit: the status flag of the least-squares solver
    err,              \* the exception that ended the entry point, or NoError
    keypoints_grid,   \* find_alignment_voltages: the binary mask
    local_max_cords,  \* find_alignment_voltages: peak_local_max's rows (row, col)
    tip,              \* find_alignment_voltages: tip_x, tip_y and their voltages
    voltage_array     \* get_voltage_array: the (Vx, Vy) pairs, in order

vars == <<pc, scan, Vx_out, Vy_out, power_mW, Vx_min, Vx_max, Vy_min, Vy_max,
          Vx_step, Vy_step, data, params, xgrid, ygrid, fit, ier, err,
          keypoints_grid, local_max_cords, tip, voltage_array>>

----------------------------------------------------------------------------
(* Values *)

\* A variable a run has not assigned (an empty array).
None == <<>>

\* No exception.
NoError == "ok"

\* Hundredths per unit of a parameter or of a grid value.
ParamScale == 100

\* Line 97 of scan_analysis.py: p0 = [0.1, 2.0, 0.1, 2.25, 0.0, 8, 5.8], in hundredths.
P0 == <<10, 200, 10, 225, 0, 800, 580>>

Abs(x) == IF x < 0 THEN -x ELSE x

Min2(x, y) == IF x <= y THEN x ELSE y
Max2(x, y) == IF x >= y THEN x ELSE y

\* Indices of a numpy axis of length n.
Range(n) == 0 .. (n - 1)

\* Python's a[0:k] on a sequence.
Take(s, k) == SubSeq(s, 1, Min2(k, Len(s)))

RECURSIVE SumSeq(_)
SumSeq(s) == IF s = <<>> THEN 0 ELSE Head(s) + SumSeq(Tail(s))

----------------------------------------------------------------------------
(* Natural numbers of any size: little-endian sequences of limbs, the last *)
(* limb not 0; <<>> is 0.                                                  *)

\* Bits per limb, and the number of values of a limb: products of two limbs
\* stay within 32 bits.
LimbBits == 15
LimbBase == 32768

Limb(a, i) == IF i <= Len(a) THEN a[i] ELSE 0

RECURSIVE BFromNat(_)
BFromNat(n) == IF n = 0 THEN <<>> ELSE <<n % LimbBase>> \o BFromNat(n \div LimbBase)

RECURSIVE BToNat(_)
BToNat(a) == IF a = <<>> THEN 0 ELSE a[1] + LimbBase * BToNat(Tail(a))

RECURSIVE BTrim(_)
BTrim(a) ==
    IF a = <<>> THEN <<>>
    ELSE IF a[Len(a)] = 0 THEN BTrim(SubSeq(a, 1, Len(a) - 1)) ELSE a

RECURSIVE BAddFrom(_, _, _, _)
BAddFrom(a, b, i, carry) ==
    IF i > Len(a) /\ i > Len(b) THEN (IF carry = 0 THEN <<>> ELSE <<carry>>)
    ELSE LET x == Limb(a, i) + Limb(b, i) + carry
         IN  <<x % LimbBase>> \o BAddFrom(a, b, i + 1, x \div LimbBase)

BAdd(a, b) == BTrim(BAddFrom(a, b, 1, 0))

\* a - b for a >= b.
RECURSIVE BSubFrom(_, _, _, _)
BSubFrom(a, b, i, borrow) ==
    IF i > Len(a) THEN <<>>
    ELSE LET x == a[i] - Limb(b, i) - borrow
         IN  <<x % LimbBase>> \o BSubFrom(a, b, i + 1, IF x < 0 THEN 1 ELSE 0)

BSub(a, b) == BTrim(BSubFrom(a, b, 1, 0))

RECURSIVE BCmpAt(_, _, _)
BCmpAt(a, b, i) ==
    IF i = 0 THEN 0
    ELSE IF a[i] < b[i] THEN -1
    ELSE IF a[i] > b[i] THEN 1
    ELSE BCmpAt(a, b, i - 1)

\* -1, 0 or 1 as a is less than, equal to or greater than b.
BCmp(a, b) ==
    IF Len(a) < Len(b) THEN -1
    ELSE IF Len(a) > Len(b) THEN 1
    ELSE BCmpAt(a, b, Len(a))

RECURSIVE BMulSmallFrom(_, _, _, _)
BMulSmallFrom(a, k, i, carry) ==
    IF i > Len(a) THEN (IF carry = 0 THEN <<>> ELSE <<carry>>)
    ELSE LET x == a[i] * k + carry
         IN  <<x % LimbBase>> \o BMulSmallFrom(a, k, i + 1, x \div LimbBase)

\* a * k for 0 <= k <= LimbBase.
BMulSmall(a, k) == IF k = 0 THEN <<>> ELSE BMulSmallFrom(a, k, 1, 0)

RECURSIVE BMulFrom(_, _, _)
BMulFrom(a, b, j) ==
    IF j > Len(b) THEN <<>>
    ELSE BAddFrom(BMulSmall(a, b[j]), <<0>> \o BMulFrom(a, b, j + 1), 1, 0)

BMul(a, b) == BTrim(BMulFrom(a, b, 1))

\* Division of the limbs i, i-1, ..., 1 of a by k, rem the remainder so far
\* and q the digits found so far.
RECURSIVE BDivSmallAt(_, _, _, _, _)
BDivSmallAt(a, k, i, rem, q) ==
    IF i = 0 THEN [q |-> BTrim(q), sticky |-> rem # 0]
    ELSE BDivSmallAt(a, k, i - 1, (rem * LimbBase + a[i]) % k,
                     <<(rem * LimbBase + a[i]) \div k>> \o q)

\* floor(a / k) for 0 < k < 2 * LimbBase, and whether the division leaves a
\* remainder.
BDivSmall(a, k) == BDivSmallAt(a, k, Len(a), 0, <<>>)

\* a * 2^s.
BShl(a, s) ==
    IF a = <<>> THEN <<>>
    ELSE [i \in 1 .. (s \div LimbBits) |-> 0] \o BMulSmall(a, 2 ^ (s % LimbBits))

\* The quotient d of the upper limbs, with the limbs dropped below them.
BShrOf(d, low) == [q |-> d.q, sticky |-> d.sticky \/ \E i \in DOMAIN low : low[i] # 0]

\* floor(a / 2^s), and whether a bit was shifted out.
BShr(a, s) ==
    BShrOf(BDivSmall(SubSeq(a, s \div LimbBits + 1, Len(a)), 2 ^ (s % LimbBits)),
           SubSeq(a, 1, Min2(s \div LimbBits, Len(a))))

\* Number of bits of a limb, and of a number.
BitLen(x) == Cardinality({ k \in 0 .. (LimbBits - 1) : 2 ^ k <= x })

BBitLen(a) == IF a = <<>> THEN 0 ELSE LimbBits * (Len(a) - 1) + BitLen(a[Len(a)])

\* The digit of a long division: the largest d with d * b <= cur, from the
\* estimate est >= d.
RECURSIVE BDigit(_, _, _)
BDigit(b, cur, est) ==
    IF BCmp(BMulSmall(b, est), cur) > 0 THEN BDigit(b, cur, est - 1) ELSE est

\* Long division of the limbs i, i-1, ..., 1 of a by b, rem < b the remainder
\* so far and q the digits found so far; the top limb of b is at least
\* LimbBase / 2, so that the estimate from the leading limbs of the running
\* dividend cur is at most 2 above the digit dgt.
RECURSIVE BDivAt(_, _, _, _, _)
RECURSIVE BDivCur(_, _, _, _, _)
RECURSIVE BDivDigit(_, _, _, _, _, _)
BDivAt(a, b, i, rem, q) ==
    IF i = 0 THEN [q |-> BTrim(q), sticky |-> rem # <<>>]
    ELSE BDivCur(a, b, i, BTrim(<<a[i]>> \o rem), q)

BDivCur(a, b, i, cur, q) ==
    BDivDigit(a, b, i, cur, q,
              BDigit(b, cur, Min2((Limb(cur, Len(b) + 1) * LimbBase + Limb(cur, Len(b)))
                                      \div b[Len(b)],
                                  LimbBase - 1)))

BDivDigit(a, b, i, cur, q, dgt) ==
    BDivAt(a, b, i - 1, BSub(cur, BMulSmall(b, dgt)), <<dgt>> \o q)

\* floor(a / b) for b # 0, and whether the division leaves a remainder: both
\* are shifted so that the top limb of b has its top bit set.
BDiv(a, b) ==
    BDivAt(BShl(a, LimbBits - BitLen(b[Len(b)])), BShl(b, LimbBits - BitLen(b[Len(b)])),
           Len(BShl(a, LimbBits - BitLen(b[Len(b)]))), <<>>, <<>>)

----------------------------------------------------------------------------
(* IEEE doubles (numpy's float64, Python's float) *)

\* Bits of a double's mantissa.
MantBits == 53

NaN == [kind |-> "nan", neg |-> FALSE, m |-> <<>>, e |-> 0]

F64Zero == [kind |-> "num", neg |-> FALSE, m |-> <<>>, e |-> 0]

\* The double (-1)^neg * m * 2^e, m of exactly MantBits bits.
F64(neg, m, e) == [kind |-> "num", neg |-> neg, m |-> m, e |-> e]

\* The exponent of the last bit of the smallest doubles (the subnormal ones).
MinExp == -1074

\* M * 2^e with M of at most MantBits + 1 bits, its mantissa brought to
\* MantBits bits (M of MantBits + 1 bits is 2^MantBits, after a carry).
F64Norm(neg, M, e) ==
    IF M = <<>> THEN F64Zero
    ELSE IF BBitLen(M) > MantBits THEN F64(neg, BDivSmall(M, 2).q, e + 1)
    ELSE F64(neg, BShl(M, MantBits - BBitLen(M)), e - (MantBits - BBitLen(M)))

\* t.q / 2 rounded to the nearest integer, ties to even, when t.sticky or
\* sticky tells that the number is a little more than t.q / 2: up from a
\* half when more follows it or the integer below is odd.
RoundHalfEven(t, sticky) ==
    BDivSmall(IF Limb(t.q, 1) % 2 = 1 /\ (t.sticky \/ sticky \/ Limb(t.q, 1) % 4 = 3)
              THEN BAdd(t.q, <<1>>) ELSE t.q, 2).q

\* M * 2^e rounded on the bit of weight 2^(e + s).
F64RoundAt(neg, M, e, sticky, s) ==
    IF s <= 0 THEN F64Norm(neg, M, e)
    ELSE F64Norm(neg, RoundHalfEven(BShr(M, s - 1), sticky), e + s)

\* The double nearest to (-1)^neg * M * 2^e, ties to even; sticky tells that
\* the number is a little more than M * 2^e.  The last bit kept is the
\* MantBits-th of M, or the one of weight 2^MinExp when that is higher.
F64Round(neg, M, e, sticky) ==
    IF M = <<>> THEN F64Zero
    ELSE F64RoundAt(neg, M, e, sticky, Max2(BBitLen(M) - MantBits, MinExp - e))

\* The double nearest to a quotient d = [q, sticky] times 2^e.
F64Quotient(neg, d, e) == F64Round(neg, d.q, e, d.sticky)

\* Bits a numerator is shifted by before a division, so that the quotient
\* has more bits than a mantissa.
RatioShift == 75

\* The double nearest to p/q for integers p and 0 < q < 2 * LimbBase: a
\* decimal literal, an integer, the quotient of two integers.
F64FromRatio(p, q) ==
    IF p = 0 THEN F64Zero
    ELSE F64Quotient(p < 0, BDivSmall(BShl(BFromNat(Abs(p)), RatioShift), q), -RatioShift)

F64FromInt(n) == F64FromRatio(n, 1)

F64IsZero(a) == a.kind = "num" /\ a.m = <<>>

F64Neg(a) == IF a.m = <<>> THEN a ELSE [a EXCEPT !.neg = ~a.neg]

\* np.abs.
F64Abs(a) == [a EXCEPT !.neg = FALSE]

\* a * b.
F64Mul(a, b) ==
    IF a.kind = "nan" \/ b.kind = "nan" THEN NaN
    ELSE IF a.m = <<>> \/ b.m = <<>> THEN F64Zero
    ELSE F64Round(a.neg # b.neg, BMul(a.m, b.m), a.e + b.e, FALSE)

\* Bits a mantissa is shifted by before it is divided by another.
DivShift == 60

\* a / b for b # 0.
F64Div(a, b) ==
    IF a.kind = "nan" \/ b.kind = "nan" THEN NaN
    ELSE IF a.m = <<>> THEN F64Zero
    ELSE F64Quotient(a.neg # b.neg, BDiv(BShl(a.m, DivShift), b.m), a.e - b.e - DivShift)

\* a * a.
F64Square(a) == F64Mul(a, a)

\* Difference of exponents from which the smaller operand of a sum is below
\* a quarter of the last bit of the larger and the sum is the larger.
FarApart == 60

\* A * 2^e with sign an plus B * 2^e with sign bn.
F64AddAligned(an, A, bn, B, e) ==
    IF an = bn THEN F64Round(an, BAdd(A, B), e, FALSE)
    ELSE IF BCmp(A, B) = 0 THEN F64Zero
    ELSE IF BCmp(A, B) > 0 THEN F64Round(an, BSub(A, B), e, FALSE)
    ELSE F64Round(bn, BSub(B, A), e, FALSE)

\* hi + lo for hi.e >= lo.e.
F64AddOrdered(hi, lo) ==
    IF hi.e - lo.e > FarApart THEN hi
    ELSE F64AddAligned(hi.neg, BShl(hi.m, hi.e - lo.e), lo.neg, lo.m, lo.e)

\* a + b.
F64Add(a, b) ==
    IF a.kind = "nan" \/ b.kind = "nan" THEN NaN
    ELSE IF a.m = <<>> THEN b
    ELSE IF b.m = <<>> THEN a
    ELSE IF a.e >= b.e THEN F64AddOrdered(a, b)
    ELSE F64AddOrdered(b, a)

\* a - b.
F64Sub(a, b) == F64Add(a, F64Neg(b))

\* -1, 0 or 1 as the number a is less than, equal to or greater than b.
F64Cmp(a, b) ==
    LET mag == IF a.e # b.e THEN (IF a.e < b.e THEN -1 ELSE 1) ELSE BCmp(a.m, b.m)
    IN  IF a.m = <<>> /\ b.m = <<>> THEN 0
        ELSE IF a.m = <<>> THEN (IF b.neg THEN 1 ELSE -1)
        ELSE IF b.m = <<>> THEN (IF a.neg THEN -1 ELSE 1)
        ELSE IF a.neg # b.neg THEN (IF a.neg THEN -1 ELSE 1)
        ELSE IF a.neg THEN -mag ELSE mag

\* a <= b and a < b; every comparison with NaN is False.
F64Le(a, b) == a.kind = "num" /\ b.kind = "num" /\ F64Cmp(a, b) <= 0
F64Lt(a, b) == a.kind = "num" /\ b.kind = "num" /\ F64Cmp(a, b) < 0

\* np.rint of a number of magnitude below 2^31: the nearest integer, ties
\* to even.
F64RInt(a) ==
    IF a.m = <<>> THEN 0
    ELSE (IF a.neg THEN -1 ELSE 1)
         * BToNat(IF a.e >= 0 THEN BShl(a.m, a.e)
                  ELSE RoundHalfEven(BShr(a.m, -a.e - 1), FALSE))

\* The double a parameter written c hundredths stands for.
Param(c) == F64FromRatio(c, ParamScale)

F64One == F64FromInt(1)

----------------------------------------------------------------------------
(* np.exp of a number <= 0 *)

\* np.exp on float64 is the exp of the C library.  It is reproduced here
\* operation by operation as glibc computes it (sysdeps/ieee754/dbl-64/
\* e_exp.c, since 2.28, in the build that uses fused multiply-adds):
\* exp(x) = 2^(k/N) * exp(r) with k = round(x * N/ln 2) and
\* r = x - k * ln 2/N, the power of two from a table of N entries and exp(r)
\* from a polynomial of degree 5.  Its result is within 0.52 units in the
\* last place of the exponential, most often the nearest double.

\* Far apart enough that the smaller of two exact numbers of at most
\* 2 * MantBits bits each is below an eighth of the last bit of the larger.
FmaGap == 109

\* X * 2^xe + Y * 2^ye rounded once, for xe >= ye and X, Y of MantBits to
\* 2 * MantBits bits.  A Y too small to reach the last bit of X only tells
\* on which side of X the sum lies.
F64SumExact(xneg, X, xe, yneg, Y, ye) ==
    IF xe - ye > FmaGap THEN F64AddAligned(xneg, BShl(X, 3), yneg, <<1>>, xe - 3)
    ELSE F64AddAligned(xneg, BShl(X, xe - ye), yneg, Y, ye)

\* P * 2^pe + c rounded once.
F64FmaOf(pneg, P, pe, c) ==
    IF pe >= c.e THEN F64SumExact(pneg, P, pe, c.neg, c.m, c.e)
    ELSE F64SumExact(c.neg, c.m, c.e, pneg, P, pe)

\* fma(a, b, c): a * b + c with one rounding.
F64Fma(a, b, c) ==
    IF a.kind = "nan" \/ b.kind = "nan" \/ c.kind = "nan" THEN NaN
    ELSE IF a.m = <<>> \/ b.m = <<>> THEN c
    ELSE IF c.m = <<>> THEN F64Round(a.neg # b.neg, BMul(a.m, b.m), a.e + b.e, FALSE)
    ELSE F64FmaOf(a.neg # b.neg, BMul(a.m, b.m), a.e + b.e, c)

\* N, the number of entries of the table (EXP_TABLE_BITS = 7).
ExpN == 128

\* N/ln 2; 1.5 * 2^52, which added to a number rounds it to an integer;
\* -ln 2/N in two pieces; the coefficients of the polynomial.
InvLn2N == F64(FALSE, <<766, 19031, 21789, 184>>, -45)
ExpShift == F64(FALSE, <<0, 0, 0, 192>>, 0)
NegLn2hiN == F64(TRUE, <<0, 32244, 14603, 177>>, -60)
NegLn2loN == F64(TRUE, <<15162, 31036, 24170, 231>>, -99)
ExpC2 == F64(FALSE, <<32189, 32767, 32767, 255>>, -54)
ExpC3 == F64(FALSE, <<21564, 10922, 21845, 170>>, -55)
ExpC4 == F64(FALSE, <<11153, 7726, 21847, 170>>, -57)
ExpC5 == F64(FALSE, <<20503, 20297, 17477, 136>>, -59)

\* Entry i + 1 is <<tail, the mantissa of scale>> for 2^(i/N): scale is the
\* double mantissa * 2^-52 nearest below or above 2^(i/N), and
\* scale * (1 + tail) is 2^(i/N) to about twice the precision.
ExpTab == <<
    <<F64Zero, <<0, 0, 0, 128>>>>,
    <<F64(FALSE, <<16238, 13585, 27964, 217>>, -106), <<13109, 21494, 22774, 128>>>>,
    <<F64(TRUE, <<23645, 14769, 78, 139>>, -108), <<97, 31983, 12904, 129>>>>,
    <<F64(TRUE, <<26321, 8462, 31208, 130>>, -106), <<32645, 20700, 3159, 130>>>>,
    <<F64(FALSE, <<30227, 27343, 18760, 230>>, -107), <<1396, 9771, 26307, 130>>>>,
    <<F64(TRUE, <<3834, 18419, 14848, 222>>, -107), <<30430, 21435, 16812, 131>>>>,
    <<F64(FALSE, <<18529, 17357, 23865, 135>>, -109), <<7112, 12523, 7444, 132>>>>,
    <<F64(FALSE, <<21401, 13927, 3985, 133>>, -106), <<29571, 5517, 30971, 132>>>>,
    <<F64(FALSE, <<31597, 15110, 27289, 188>>, -106), <<2319, 23027, 21857, 133>>>>,
    <<F64(FALSE, <<28668, 9723, 21610, 245>>, -107), <<18423, 22244, 12872, 134>>>>,
    <<F64(FALSE, <<7377, 24671, 30965, 245>>, -112), <<20898, 26023, 4016, 135>>>>,
    <<F64(TRUE, <<28171, 4896, 3282, 208>>, -109), <<21275, 24573, 28058, 135>>>>,
    <<F64(TRUE, <<15630, 21599, 22856, 170>>, -106), <<23377, 8228, 19463, 136>>>>,
    <<F64(TRUE, <<27221, 6301, 958, 132>>, -110), <<12748, 216, 10999, 137>>>>,
    <<F64(TRUE, <<29718, 29611, 9358, 142>>, -106), <<11744, 23890, 2666, 138>>>>,
    <<F64(FALSE, <<21935, 21176, 20367, 134>>, -107), <<3665, 4427, 27235, 138>>>>,
    <<F64(TRUE, <<4936, 21835, 27735, 128>>, -107), <<20859, 30970, 19168, 139>>>>,
    <<F64(TRUE, <<12861, 11196, 32705, 248>>, -107), <<3562, 28953, 11236, 140>>>>,
    <<F64(FALSE, <<21439, 32294, 9776, 220>>, -107), <<19317, 22239, 3439, 141>>>>,
    <<F64(TRUE, <<27430, 27683, 26225, 182>>, -106), <<23764, 2056, 28546, 141>>>>,
    <<F64(FALSE, <<12128, 31860, 13276, 215>>, -106), <<14762, 25297, 21020, 142>>>>,
    <<F64(TRUE, <<14493, 5900, 7691, 255>>, -107), <<22813, 17913, 13632, 143>>>>,
    <<F64(FALSE, <<17293, 2381, 15621, 211>>, -107), <<3286, 4293, 6382, 144>>>>,
    <<F64(FALSE, <<1149, 25032, 26646, 131>>, -107), <<23702, 8955, 32038, 144>>>>,
    <<F64(FALSE, <<10388, 18257, 15351, 180>>, -106), <<25144, 23786, 25065, 145>>>>,
    <<F64(FALSE, <<18557, 25832, 30819, 186>>, -107), <<9791, 8037, 18233, 146>>>>,
    <<F64(FALSE, <<26610, 12351, 7342, 130>>, -107), <<31965, 19396, 11541, 147>>>>,
    <<F64(TRUE, <<2142, 32482, 25068, 181>>, -106), <<25473, 17386, 4991, 148>>>>,
    <<F64(FALSE, <<11057, 23059, 24453, 151>>, -107), <<24289, 27199, 31351, 148>>>>,
    <<F64(TRUE, <<16378, 13535, 1644, 233>>, -112), <<22928, 8629, 25087, 149>>>>,
    <<F64(FALSE, <<2740, 25624, 24073, 217>>, -107), <<779, 19912, 18966, 150>>>>,
    <<F64(FALSE, <<19343, 5021, 21066, 240>>, -109), <<12118, 21116, 12990, 151>>>>,
    <<F64(FALSE, <<11190, 7009, 13781, 154>>, -107), <<14101, 5219, 7160, 152>>>>,
    <<F64(FALSE, <<29772, 17752, 2055, 178>>, -107), <<22577, 30873, 1475, 153>>>>,
    <<F64(FALSE, <<30794, 15271, 29925, 254>>, -107), <<5887, 25800, 28706, 153>>>>,
    <<F64(TRUE, <<23300, 30492, 3584, 181>>, -107), <<8177, 16165, 23317, 154>>>>,
    <<F64(TRUE, <<20584, 6294, 11191, 146>>, -106), <<10699, 28277, 18076, 155>>>>,
    <<F64(TRUE, <<11662, 13986, 8160, 200>>, -106), <<22630, 23051, 12985, 156>>>>,
    <<F64(TRUE, <<14034, 32040, 18336, 142>>, -108), <<8183, 27083, 8044, 157>>>>,
    <<F64(TRUE, <<6933, 26524, 25702, 200>>, -106), <<10469, 1575, 3255, 158>>>>,
    <<F64(FALSE, <<19565, 20052, 32034, 172>>, -107), <<13346, 6180, 31385, 158>>>>,
    <<F64(TRUE, <<27018, 29776, 18817, 152>>, -106), <<28, 2393, 26900, 159>>>>,
    <<F64(TRUE, <<2395, 4143, 7741, 197>>, -110), <<11818, 17390, 22568, 160>>>>,
    <<F64(TRUE, <<6683, 20115, 12909, 225>>, -108), <<10391, 12961, 18391, 161>>>>,
    <<F64(FALSE, <<11281, 16773, 4021, 155>>, -111), <<2349, 16579, 14369, 162>>>>,
    <<F64(FALSE, <<25839, 30220, 6180, 179>>, -106), <<87, 23098, 10503, 163>>>>,
    <<F64(FALSE, <<889, 13634, 13191, 246>>, -109), <<15568, 27522, 6794, 164>>>>,
    <<F64(FALSE, <<4656, 32286, 32312, 159>>, -106), <<21470, 25007, 3243, 165>>>>,
    <<F64(FALSE, <<12208, 30453, 17210, 180>>, -108), <<10791, 10860, 32619, 165>>>>,
    <<F64(FALSE, <<24695, 22185, 30455, 152>>, -106), <<23821, 13307, 29386, 166>>>>,
    <<F64(TRUE, <<9102, 227, 20688, 252>>, -107), <<11431, 27962, 26313, 167>>>>,
    <<F64(TRUE, <<9033, 14631, 31539, 190>>, -107), <<26178, 17822, 23402, 168>>>>,
    <<F64(TRUE, <<14431, 31262, 31514, 198>>, -108), <<20354, 11578, 20653, 169>>>>,
    <<F64(TRUE, <<23798, 22774, 18715, 176>>, -107), <<4623, 5307, 18067, 170>>>>,
    <<F64(FALSE, <<22414, 12795, 21524, 153>>, -106), <<10202, 28010, 15644, 171>>>>,
    <<F64(FALSE, <<6917, 24341, 25308, 220>>, -108), <<18429, 10543, 13387, 172>>>>,
    <<F64(FALSE, <<21513, 17464, 3975, 131>>, -106), <<21545, 14992, 11295, 173>>>>,
    <<F64(FALSE, <<18154, 8243, 7701, 166>>, -112), <<18103, 5298, 9370, 174>>>>,
    <<F64(FALSE, <<16437, 22217, 19352, 161>>, -106), <<8520, 11098, 7612, 175>>>>,
    <<F64(TRUE, <<30367, 17202, 4393, 231>>, -107), <<23561, 29421, 6022, 176>>>>,
    <<F64(TRUE, <<19880, 30686, 20244, 225>>, -107), <<21893, 24692, 4602, 177>>>>,
    <<F64(TRUE, <<27054, 4695, 19938, 162>>, -107), <<17184, 27033, 3352, 178>>>>,
    <<F64(TRUE, <<22616, 28844, 15221, 158>>, -106), <<8741, 1194, 2274, 179>>>>,
    <<F64(FALSE, <<6500, 252, 17066, 184>>, -110), <<10611, 10393, 1367, 180>>>>,
    <<F64(TRUE, <<8744, 32444, 20414, 157>>, -106), <<15309, 19710, 633, 181>>>>,
    <<F64(TRUE, <<14722, 3689, 19126, 208>>, -109), <<23231, 27159, 73, 182>>>>,
    <<F64(TRUE, <<10734, 28891, 8126, 155>>, -109), <<6703, 30922, 32456, 182>>>>,
    <<F64(TRUE, <<2129, 10689, 28917, 134>>, -107), <<5252, 29347, 32247, 183>>>>,
    <<F64(TRUE, <<16079, 31924, 32145, 192>>, -108), <<24436, 20952, 32215, 184>>>>,
    <<F64(TRUE, <<32176, 278, 14635, 183>>, -107), <<372, 4427, 32361, 185>>>>,
    <<F64(TRUE, <<26250, 15531, 25800, 176>>, -107), <<26569, 11396, 32685, 186>>>>,
    <<F64(FALSE, <<21715, 15379, 29485, 132>>, -106), <<23871, 8124, 421, 188>>>>,
    <<F64(TRUE, <<9501, 29339, 19314, 217>>, -108), <<391, 26582, 1105, 189>>>>,
    <<F64(FALSE, <<16491, 10447, 13301, 167>>, -106), <<16690, 609, 1972, 190>>>>,
    <<F64(FALSE, <<27733, 22444, 12166, 175>>, -109), <<20066, 28062, 3020, 191>>>>,
    <<F64(TRUE, <<20290, 24423, 1812, 197>>, -107), <<6674, 10364, 4253, 192>>>>,
    <<F64(TRUE, <<14132, 25206, 9947, 155>>, -106), <<19987, 12953, 5670, 193>>>>,
    <<F64(TRUE, <<32542, 29747, 31248, 130>>, -107), <<18349, 3143, 7273, 194>>>>,
    <<F64(TRUE, <<22382, 12516, 20803, 166>>, -106), <<4845, 13961, 9062, 195>>>>,
    <<F64(FALSE, <<2560, 13853, 13725, 133>>, -106), <<26265, 13076, 11039, 196>>>>,
    <<F64(FALSE, <<27316, 993, 23743, 237>>, -107), <<8411, 1109, 13205, 197>>>>,
    <<F64(TRUE, <<26623, 14731, 22914, 173>>, -109), <<17548, 11626, 15560, 198>>>>,
    <<F64(FALSE, <<24388, 13286, 23053, 223>>, -108), <<30518, 12842, 18106, 199>>>>,
    <<F64(TRUE, <<15747, 20028, 9342, 152>>, -106), <<32710, 5923, 20844, 200>>>>,
    <<F64(TRUE, <<7721, 5848, 9954, 237>>, -110), <<17893, 24987, 23774, 201>>>>,
    <<F64(TRUE, <<14681, 31009, 4069, 225>>, -109), <<21007, 6032, 26899, 202>>>>,
    <<F64(TRUE, <<31146, 17897, 3340, 146>>, -106), <<20048, 16316, 30218, 203>>>>,
    <<F64(TRUE, <<3659, 11981, 10675, 174>>, -107), <<1978, 24980, 965, 205>>>>,
    <<F64(FALSE, <<20007, 22307, 16368, 141>>, -108), <<28816, 1351, 4678, 206>>>>,
    <<F64(FALSE, <<29627, 16916, 18647, 238>>, -109), <<8995, 13254, 8588, 207>>>>,
    <<F64(TRUE, <<8803, 17604, 5136, 190>>, -107), <<25957, 30395, 12697, 208>>>>,
    <<F64(FALSE, <<12757, 18372, 29211, 216>>, -107), <<11571, 22676, 17007, 209>>>>,
    <<F64(TRUE, <<15125, 10105, 28487, 141>>, -106), <<9565, 25724, 21518, 210>>>>,
    <<F64(FALSE, <<12754, 14812, 12486, 134>>, -106), <<13144, 9825, 26232, 211>>>>,
    <<F64(FALSE, <<23219, 23782, 9745, 163>>, -107), <<32191, 10995, 31149, 212>>>>,
    <<F64(TRUE, <<7604, 12061, 32566, 150>>, -107), <<29562, 32679, 3502, 214>>>>,
    <<F64(FALSE, <<13191, 9622, 27102, 224>>, -107), <<21421, 12981, 8830, 215>>>>,
    <<F64(TRUE, <<23034, 5539, 28221, 131>>, -106), <<13926, 21275, 14364, 216>>>>,
    <<F64(TRUE, <<11962, 11705, 3941, 174>>, -110), <<5627, 28830, 20106, 217>>>>,
    <<F64(TRUE, <<30272, 31565, 4152, 133>>, -106), <<22842, 7114, 26058, 218>>>>,
    <<F64(TRUE, <<4916, 29019, 23504, 198>>, -109), <<24135, 26102, 32219, 219>>>>,
    <<F64(TRUE, <<2613, 22193, 15241, 143>>, -106), <<1610, 24898, 5824, 221>>>>,
    <<F64(FALSE, <<24013, 5311, 32604, 167>>, -108), <<16850, 8343, 12410, 222>>>>,
    <<F64(TRUE, <<6316, 29989, 30703, 141>>, -106), <<7689, 14254, 19209, 223>>>>,
    <<F64(FALSE, <<3251, 24926, 15032, 155>>, -108), <<21148, 15114, 26223, 224>>>>,
    <<F64(FALSE, <<32148, 14655, 3273, 247>>, -107), <<20602, 16383, 685, 226>>>>,
    <<F64(FALSE, <<22956, 8722, 575, 167>>, -107), <<20811, 23727, 8132, 227>>>>,
    <<F64(FALSE, <<6759, 28828, 14012, 158>>, -109), <<26549, 10253, 15798, 228>>>>,
    <<F64(FALSE, <<6504, 22820, 11441, 187>>, -109), <<4201, 14815, 23683, 229>>>>,
    <<F64(TRUE, <<13778, 1945, 10338, 132>>, -107), <<17402, 10939, 31789, 230>>>>,
    <<F64(TRUE, <<31343, 32767, 13684, 253>>, -107), <<2428, 5135, 7349, 232>>>>,
    <<F64(TRUE, <<10569, 28907, 14008, 128>>, -106), <<2546, 4123, 15900, 233>>>>,
    <<F64(FALSE, <<1959, 19578, 3606, 165>>, -108), <<9351, 14839, 24675, 234>>>>,
    <<F64(TRUE, <<8719, 16512, 18040, 148>>, -107), <<920, 11667, 908, 236>>>>,
    <<F64(FALSE, <<4780, 11139, 26947, 242>>, -107), <<12933, 1974, 10136, 237>>>>,
    <<F64(FALSE, <<27467, 22530, 26982, 161>>, -107), <<13408, 26115, 19591, 238>>>>,
    <<F64(TRUE, <<15903, 3944, 21636, 150>>, -107), <<7007, 26359, 29276, 239>>>>,
    <<F64(TRUE, <<3529, 30350, 10980, 201>>, -107), <<8489, 10731, 6424, 241>>>>,
    <<F64(FALSE, <<2259, 16501, 22545, 165>>, -108), <<16374, 20246, 16571, 242>>>>,
    <<F64(FALSE, <<29297, 9018, 6065, 158>>, -107), <<19587, 30606, 26951, 243>>>>,
    <<F64(TRUE, <<4592, 8103, 23626, 255>>, -107), <<4314, 17737, 4798, 245>>>>,
    <<F64(TRUE, <<29821, 17478, 14947, 237>>, -107), <<26609, 23324, 15648, 246>>>>,
    <<F64(FALSE, <<8200, 852, 3825, 246>>, -107), <<23079, 23746, 26735, 247>>>>,
    <<F64(FALSE, <<27442, 1875, 11859, 161>>, -107), <<14999, 28375, 5292, 249>>>>,
    <<F64(FALSE, <<1518, 25507, 4772, 211>>, -107), <<17728, 14044, 16857, 250>>>>,
    <<F64(TRUE, <<25581, 18551, 24299, 241>>, -107), <<15892, 23353, 28662, 251>>>>,
    <<F64(FALSE, <<19869, 6947, 9453, 188>>, -108), <<4312, 829, 7942, 253>>>>,
    <<F64(FALSE, <<19593, 705, 5893, 152>>, -110), <<29169, 22302, 20232, 254>>>> >>

\* 2^-1022, the least normal double, and the exponent it adds.
ExpSubnormalShift == 1022
TwoToMinus1022 == F64(FALSE, BShl(<<1>>, MantBits - 1), -(ExpSubnormalShift + MantBits - 1))

\* kd = round(x * N/ln 2) as a double: z + Shift - Shift, the product and
\* the first sum fused.
ExpKd(x) == F64Sub(F64Fma(x, InvLn2N, ExpShift), ExpShift)

\* r = x + kd*NegLn2hiN + kd*NegLn2loN, fused twice.
ExpR(x, kd) == F64Fma(kd, NegLn2loN, F64Fma(kd, NegLn2hiN, x))

\* tmp = tail + r + r2*(C2 + r*C3) + r2*r2*(C4 + r*C5), as compiled.
ExpPoly(r, r2, tail) ==
    F64Fma(F64Mul(r2, r2), F64Fma(r, ExpC5, ExpC4),
           F64Fma(F64Fma(r, ExpC3, ExpC2), r2, F64Add(r, tail)))

ExpTmp(r, k) == ExpPoly(r, F64Square(r), ExpTab[(k % ExpN) + 1][1])

\* scale = 2^(k/N) to the double, times 2^up.
ExpScale(k, up) ==
    F64(FALSE, ExpTab[(k % ExpN) + 1][2], ((k - (k % ExpN)) \div ExpN) + up - (MantBits - 1))

\* specialcase, k < 0, y < 1: y rounded to the precision it will have as a
\* subnormal number, so that the scaling does not round a second time.
ExpCareful(scale, st, y, hi) ==
    F64Sub(F64Add(F64Add(F64Add(F64Sub(F64One, hi), y), F64Add(F64Sub(scale, y), st)), hi),
           F64One)

\* specialcase, k < 0: y = scale + scale*tmp with scale 2^1022 times too
\* large, scaled back at the end.
ExpUnderflow(scale, st, y) ==
    F64Mul(IF F64Lt(y, F64One) THEN ExpCareful(scale, st, y, F64Add(y, F64One)) ELSE y,
           TwoToMinus1022)

ExpSpecialOf(scale, st) == ExpUnderflow(scale, st, F64Add(scale, st))

ExpSpecial(scale, tmp) == ExpSpecialOf(scale, F64Mul(tmp, scale))

\* exp(x) = scale + scale*tmp, fused; through specialcase when |x| >= 512.
ExpScaled(k, r, special) ==
    IF special THEN ExpSpecial(ExpScale(k, ExpSubnormalShift), ExpTmp(r, k))
    ELSE F64Fma(ExpScale(k, 0), ExpTmp(r, k), ExpScale(k, 0))

ExpReduced(x, kd, special) == ExpScaled(F64RInt(kd), ExpR(x, kd), special)

\* Binary exponents of |x| below which exp(x) is 1 + x (|x| < 2^-54), from
\* which specialcase is taken (|x| >= 512) and from which the result
\* underflows to 0 (x <= -1024).
ExpTinyBits == -54
ExpSpecialBits == 9
ExpOverflowBits == 10

\* np.exp(-t) for a double t >= 0.
F64ExpNeg(t) ==
    IF t.kind = "nan" THEN NaN
    ELSE IF t.m = <<>> \/ t.e + (MantBits - 1) < ExpTinyBits THEN F64Add(F64One, F64Neg(t))
    ELSE IF t.e + (MantBits - 1) >= ExpOverflowBits THEN F64Zero
    ELSE ExpReduced(F64Neg(t), ExpKd(F64Neg(t)), t.e + (MantBits - 1) >= ExpSpecialBits)

----------------------------------------------------------------------------
(* scan_analysis.model *)

\* Line 68: Amp[Amp<0] = 0.
ClampAmp(amp) == IF F64Lt(amp, F64Zero) THEN F64Zero ELSE amp

\* Lines 63 and 68: Amp = alpha*X + a, clamped.
AmpAt(X, p) == ClampAmp(F64Add(F64Mul(Param(p[1]), X), Param(p[2])))

\* Line 64: sigma = beta*X + b.
SigmaAt(X, p) == F64Add(F64Mul(Param(p[3]), X), Param(p[4]))

\* Line 69: (Y-d)**2.
DySquare(Y, p) == F64Square(F64Sub(Y, Param(p[6])))

\* Line 69: 2*sigma**2.
TwoSigmaSquare(sigma) == F64Mul(F64FromInt(2), F64Square(sigma))

\* Line 69: np.exp(-(Y-d)**2/(2*sigma**2)) from sq = (Y-d)**2 and
\* den = 2*sigma**2.  With den = 0 the quotient is -inf (exp gives 0) when
\* sq # 0, and -0.0/0.0 = nan when sq = 0.
ExpNegHalfSquare(sq, den) ==
    IF den.m = <<>> THEN (IF sq.m = <<>> THEN NaN ELSE F64Zero)
    ELSE F64ExpNeg(F64Div(sq, den))

\* Line 69: const - np.abs(Amp*np.exp(...)).  nan propagates through the
\* product (0*nan = nan), the absolute value and the subtraction; with
\* Amp = 0 and a number for the exponential the product is 0.
ModelValue(amp, den, sq, const) ==
    IF den.m = <<>> /\ sq.m = <<>> THEN NaN
    ELSE IF amp.m = <<>> THEN const
    ELSE F64Sub(const, F64Abs(F64Mul(amp, ExpNegHalfSquare(sq, den))))

\* model at one point (X, Y), two doubles in volts.
ModelAt(X, Y, p) ==
    ModelValue(AmpAt(X, p), TwoSigmaSquare(SigmaAt(X, p)), DySquare(Y, p), Param(p[7]))

\* model on 1-D coordinate arrays (the call curve_fit makes).
Model1D(d, p) == [i \in DOMAIN d[1] |-> ModelAt(d[1][i], d[2][i], p)]

\* The values of a 2-D array.
Values2D(g) == UNION { { g[r][c] : c \in DOMAIN g[r] } : r \in DOMAIN g }

\* The entry of a table of terms for the coordinate v.
TermOf(terms, v) == CHOOSE t \in terms : t[1] = v

\* model on a mesh from the terms <<X, Amp, 2*sigma**2>> of its X values and
\* <<Y, (Y-d)**2>> of its Y values.
ModelOnTerms(xg, yg, xterms, yterms, const) ==
    [r \in DOMAIN xg |-> [c \in DOMAIN xg[r] |->
        ModelValue(TermOf(xterms, xg[r][c])[2], TermOf(xterms, xg[r][c])[3],
                   TermOf(yterms, yg[r][c])[2], const)]]

\* model on the 2-D mesh (the call of fit_scan_data, line 98).  The terms
\* that depend on X alone and on Y alone are computed once per coordinate
\* value.
Model2D(xg, yg, p) ==
    ModelOnTerms(xg, yg,
                 { <<X, AmpAt(X, p), TwoSigmaSquare(SigmaAt(X, p))>> : X \in Values2D(xg) },
                 { <<Y, DySquare(Y, p)>> : Y \in Values2D(yg) },
                 Param(p[7]))

----------------------------------------------------------------------------
(* get_voltage_array.get_voltage_array *)

\* Number of values of numpy's uint8, the dtype of the Y template (line 39).
UInt8Mod == 256

\* Python's int(num/den) for den > 0: truncation toward zero.
IntDiv(num, den) == IF num >= 0 THEN num \div den ELSE -((-num) \div den)

\* Lines 31-32: the number of steps that fit in [lo, hi].
StepCount(lo, hi, step) == IntDiv(hi - lo, step)

\* Line 39: np.array([i for i in range(Ny+1)], dtype='uint8') on a numpy that
\* casts out-of-range integers silently: each value is kept modulo 256.
\* Lines 40-41: np.append promotes to int64, so the descending half is exact.
YTemplate(Ny) ==
    [j \in Range(2 * (Ny + 1)) |->
        IF j <= Ny THEN j % UInt8Mod ELSE Ny - (j - (Ny + 1))]

\* Lines 35-49: the two rows of voltage_array, as the sequence of its columns
\* (Vx[i], Vy[i]), i = 0 .. (Nx+1)*(Ny+1) - 1.
VoltageArray(xmin, xmax, ymin, ymax, xstep, ystep) ==
    LET Nx == StepCount(xmin, xmax, xstep)
        Ny == StepCount(ymin, ymax, ystep)
        y_template == YTemplate(Ny)
        len == 2 * (Ny + 1)
    IN  [i \in Range((Nx + 1) * (Ny + 1)) |->
            << xmin + xstep * (i \div (Ny + 1)),
               ymin + ystep * y_template[i % len] >>]

\* get_voltage_array on a numpy that wraps uint8 (numpy 1.x).
GetVoltageArrayWrap ==
    /\ pc = "gva_start"
    /\ voltage_array' = VoltageArray(Vx_min, Vx_max, Vy_min, Vy_max, Vx_step, Vy_step)
    /\ pc' = "gva_done"
    /\ UNCHANGED <<scan, Vx_out, Vy_out, power_mW, Vx_min, Vx_max, Vy_min, Vy_max,
                   Vx_step, Vy_step, data, params, xgrid, ygrid, fit, ier, err,
                   keypoints_grid, local_max_cords, tip>>

\* get_voltage_array on a numpy that refuses an out-of-range integer for
\* uint8 (numpy 2.x): line 39 raises OverflowError when Ny > 255.
GetVoltageArrayStrict ==
    /\ pc = "gva_start"
    /\ StepCount(Vy_min, Vy_max, Vy_step) >= UInt8Mod
    /\ err' = "OverflowError"
    /\ pc' = "raised"
    /\ UNCHANGED <<scan, Vx_out, Vy_out, power_mW, Vx_min, Vx_max, Vy_min, Vy_max,
                   Vx_step, Vy_step, data, params, xgrid, ygrid, fit, ier,
                   keypoints_grid, local_max_cords, tip, voltage_array>>

----------------------------------------------------------------------------
(* scan_analysis.find_alignment_voltages *)

\* Line 121: H = 0.05, in hundredths.
HPercent == 5

\* Line 126: the 0.01 of H - 0.01, in hundredths.
BandPercent == 1

\* Number of leftmost candidates averaged (line 138: sorted_indices[0:5]).
Leftmost == 5

\* Line 148: np.round(..., 2) keeps hundredths of a volt.
CentiPerVolt == 100

\* Shape of a 2-D array (rows, columns); an array has at least one row here.
Rows(f) == Cardinality(DOMAIN f)
Cols(f) == Cardinality(DOMAIN f[0])

\* Line 125: bottom = const - H*const.
Bottom(const) == F64Sub(const, F64Mul(Param(HPercent), const))

\* Line 126: top = const - (H-0.01)*const.
Top(const) == F64Sub(const, F64Mul(F64Sub(Param(HPercent), Param(BandPercent)), const))

\* A band test that forgets the upper end.
InBandFromBottom(el, bottom, top) == F64Le(bottom, el)

\* Line 129: el >= bottom and el <= top.  Every comparison with NaN is False.
InBand(el, bottom, top) == F64Le(bottom, el) /\ F64Le(el, top)

\* Lines 128-130: 1 on the cells of the band, 0 elsewhere.
BandMask(f, bottom, top) ==
    [r \in DOMAIN f |-> [c \in DOMAIN f[r] |->
        IF InBand(f[r][c], bottom, top) THEN 1 ELSE 0]]


\* Lines 124-130: zeros of fit's shape, set to 1 where the value is in the band.
KeypointsGrid(f, const) == BandMask(f, Bottom(const), Top(const))

\* Whether all cells of a mask are equal.
Constant(mask) ==
    \A r \in DOMAIN mask : \A c \in DOMAIN mask[r] : mask[r][c] = mask[0][0]

\* The cells peak_local_max keeps on a 0/1 image with min_distance=1 and its
\* defaults (threshold image.min(), exclude_border=True): on a constant image
\* none; otherwise every cell equal to 1 that is not within 1 cell of the
\* border (a 1 is the maximum of its 3x3 neighbourhood and exceeds the minimum
\* 0; peaks 1 cell apart are not closer than min_distance, so none is dropped).
PeakCells(mask) ==
    IF Constant(mask) THEN {}
    ELSE { rc \in (1 .. Rows(mask) - 2) \X (1 .. Cols(mask) - 2) : mask[rc[1]][rc[2]] = 1 }

\* The members of a set of integers within lo .. hi, ascending.
RECURSIVE Ascending(_, _, _)
Ascending(S, lo, hi) ==
    IF S = {} THEN <<>>
    ELSE IF lo = hi THEN <<lo>>
    ELSE LET mid == (lo + hi) \div 2
         IN  Ascending({ x \in S : x <= mid }, lo, mid)
                 \o Ascending({ x \in S : x > mid }, mid + 1, hi)

\* The members of a finite set of integers, ascending.
Sorted(S) ==
    IF S = {} THEN <<>>
    ELSE Ascending(S, CHOOSE k \in S : \A q \in S : k <= q,
                      CHOOSE k \in S : \A q \in S : k >= q)

\* The cells of a set in row-major order (np.nonzero's order).
RowMajor(cells, cols) ==
    LET flat == Sorted({ rc[1] * cols + rc[2] : rc \in cells })
    IN  [i \in 1 .. Len(flat) |-> <<flat[i] \div cols, flat[i] % cols>>]

Reverse(s) == [i \in 1 .. Len(s) |-> s[Len(s) + 1 - i]]

\* Line 132: feature.peak_local_max(keypoints_grid, min_distance=1), an array
\* of (row, col).  All peaks of a 0/1 image have the same intensity, and the
\* library does not fix their order: row-major ("ascending", scikit-image
\* 0.18 and later, which sort stably by intensity) or its reverse
\* ("descending", the releases that return coord[::-1]).
PeakLocalMax(mask, order) ==
    LET asc == RowMajor(PeakCells(mask), Cols(mask))
    IN  IF order = "ascending" THEN asc ELSE Reverse(asc)

PeakOrders == {"ascending", "descending"}

\* Lines 133-134: xs = local_max_cords[:, 1], ys = local_max_cords[:, 0].
Xs(cords) == [i \in 1 .. Len(cords) |-> cords[i][2]]
Ys(cords) == [i \in 1 .. Len(cords) |-> cords[i][1]]

\* An argsort that leaves the order as it is.
ArgSortIdentity(a) == [i \in 1 .. Len(a) |-> i - 1]

\* Line 137: np.argsort(xs), the indices (0-based) of a by value ascending;
\* equal values keep their order (numpy sorts a short array by insertion).
\* The entries are ordered by the key value*len + index.
ArgSort(a) ==
    LET n   == Len(a)
        asc == Sorted({ a[i + 1] * n + i : i \in Range(n) })
    IN  [k \in 1 .. n |-> asc[k] % n]

\* The last five instead of the first five.
LeftmostIndicesLast(sorted_indices) ==
    SubSeq(sorted_indices, Len(sorted_indices) - Min2(Leftmost, Len(sorted_indices)) + 1,
           Len(sorted_indices))

\* Line 138: leftmost_indices = sorted_indices[0:5].
LeftmostIndices(sorted_indices) == Take(sorted_indices, Leftmost)

\* np.mean of an integer array: the double nearest to num/den, the sum over
\* the length; of an empty array it is NaN (numpy warns "Mean of empty slice"
\* and returns nan).
Mean(a) ==
    IF Len(a) = 0 THEN [nan |-> TRUE, num |-> 0, den |-> 1]
    ELSE [nan |-> FALSE, num |-> SumSeq(a), den |-> Len(a)]

\* Lines 147-148 and 150-151: vmin + idx*((vmax-vmin)/width), then
\* np.round(..., 2), which is rint(x * 100) / 100; the result is the double
\* nearest to centi/100.  NaN stays NaN.
IndexToVolts(vmin, vmax, idx, width) ==
    IF idx.nan THEN [nan |-> TRUE, centi |-> 0]
    ELSE LET per_cell == F64FromRatio(vmax - vmin, width)
             volts    == F64Add(F64FromInt(vmin),
                                F64Mul(F64FromRatio(idx.num, idx.den), per_cell))
         IN  [nan |-> FALSE, centi |-> F64RInt(F64Mul(volts, F64FromInt(CentiPerVolt)))]

\* Lines 136-151: the tip from peak_local_max's rows.
TipOf(cords, f, xmin, xmax, ymin, ymax) ==
    LET xs == Xs(cords)
        ys == Ys(cords)
        sorted_indices == ArgSort(xs)
        leftmost_indices == LeftmostIndices(sorted_indices)
        xleftmost_values == [i \in 1 .. Len(leftmost_indices) |-> xs[leftmost_indices[i] + 1]]
        yleftmost_values == [i \in 1 .. Len(leftmost_indices) |-> ys[leftmost_indices[i] + 1]]
        tip_x == Mean(xleftmost_values)
        tip_y == Mean(yleftmost_values)
    IN  [tip_x |-> tip_x,
         tip_y |-> tip_y,
         tip_x_inVolts |-> IndexToVolts(xmin, xmax, tip_x, Cols(f)),
         tip_y_inVolts |-> IndexToVolts(ymin, ymax, tip_y, Rows(f))]

\* Lines 132-153 on the mask of lines 124-130.
LocateOnMask(mask, f, xmin, xmax, ymin, ymax, order) ==
    [keypoints_grid |-> mask,
     local_max_cords |-> PeakLocalMax(mask, order),
     tip |-> TipOf(PeakLocalMax(mask, order), f, xmin, xmax, ymin, ymax)]


\* find_alignment_voltages, lines 121-153, with the order in which the
\* library lists the peaks.  No statement of it raises: an empty candidate
\* array flows through argsort, the slices and np.mean to the return.
Locate(f, p, xmin, xmax, ymin, ymax, order) ==
    LocateOnMask(KeypointsGrid(f, Param(p[7])), f, xmin, xmax, ymin, ymax, order)

\* A call of find_alignment_voltages on the grid and parameters at hand.
FindAlignmentVoltages ==
    /\ pc = "fav_start"
    /\ \E order \in PeakOrders :
          \E out \in {Locate(fit, params, Vx_min, Vx_max, Vy_min, Vy_max, order)} :
              /\ keypoints_grid' = out.keypoints_grid
              /\ local_max_cords' = out.local_max_cords
              /\ tip' = out.tip
    /\ pc' = "fav_done"
    /\ UNCHANGED <<scan, Vx_out, Vy_out, power_mW, Vx_min, Vx_max, Vy_min, Vy_max,
                   Vx_step, Vy_step, data, params, xgrid, ygrid, fit, ier, err,
                   voltage_array>>

----------------------------------------------------------------------------
(* scan_analysis.load_data *)

\* Line 43: power_mW = scan[:, 4]*(10**3).
MilliPerUnit == 1000

\* np.loadtxt returns a 2-D array only for two rows or more: a single row is
\* squeezed to 1-D and an empty file gives an empty 1-D array, on which
\* scan[:, 0] (line 39) raises IndexError.
LoadTxtIs2D(rows) == Len(rows) >= 2

----------------------------------------------------------------------------
(* scan_analysis.fit_scan_data *)

\* Number of parameters of the model (line 49; the length of p0, line 97).
NumParams == 7

\* The status the solver reports when it stops on maxfev (MINPACK info 5);
\* 1 to 4 are its successful terminations.
IerMaxfev == 5
IerConverged == 1

\* A status of failure other than maxfev (MINPACK info 6: ftol is too small).
IerFtolTooSmall == 6

\* The statuses curve_fit takes for success; on every other one it raises.
IerSuccess == 1 .. 4

\* The statuses the solver ends with here.
IerStatuses == {IerConverged, IerMaxfev, IerFtolTooSmall}

\* The solver has not run (or has refused its input).
IerNotRun == 0

\* The least integer whose square is at least N.
CeilSqrt(N) == CHOOSE k \in 0 .. N : k * k >= N /\ \A j \in 0 .. (k - 1) : j * j < N

\* int(np.sqrt(N)): the number of k >= 1 with k*k <= N.
IntSqrt(N) == Cardinality({ k \in 1 .. N : k * k <= N })

\* Line 90: n = 10*int(np.sqrt(len(Vx_out))).
GridN(N) == 10 * IntSqrt(N)

\* np.linspace(start, stop, n) on integers: step = (stop - start)/(n - 1),
\* the values i*step + start for i = 0 .. n-1, the last one set to stop.
LinspaceFrom(start, stop, n, step) ==
    <<>> \o [k \in 1 .. n |->
               IF n = 1 THEN F64FromInt(start)
               ELSE IF k = n THEN F64FromInt(stop)
               ELSE F64Add(F64Mul(F64FromInt(k - 1), step), F64FromInt(start))]

LinspaceValues(start, stop, n) ==
    LinspaceFrom(start, stop, n, F64FromRatio(stop - start, n - 1))

\* A sequence as an array indexed from 0.
ZeroBased(values) == [i \in Range(Len(values)) |-> values[i + 1]]

Linspace(start, stop, n) == ZeroBased(LinspaceValues(start, stop, n))

\* Line 93: np.meshgrid(xg, yg): rows follow yg, columns follow xg.
MeshX(xg, yg) == [r \in DOMAIN yg |-> [c \in DOMAIN xg |-> xg[c]]]
MeshY(xg, yg) == [r \in DOMAIN yg |-> [c \in DOMAIN xg |-> yg[r]]]

\* curve_fit that hands the seed back when the solver stops on maxfev.
CurveFitSilent(N, status, p) ==
    IF N = 0 THEN [err |-> "ValueError", params |-> None]
    ELSE IF N < NumParams THEN [err |-> "TypeError", params |-> None]
    ELSE IF status \notin IerSuccess THEN [err |-> NoError, params |-> P0]
    ELSE [err |-> NoError, params |-> p]

\* Lines 96-97: sc.optimize.curve_fit(model, [Vx_out, Vy_out], power,
\* maxfev=100000, p0=...) on N samples, when the solver ends with `status`
\* and best parameters p.  Empty data are refused (ValueError); with fewer
\* samples than parameters the solver refuses its input (TypeError); a
\* status outside 1..4 is raised as RuntimeError("Optimal parameters not
\* found"); otherwise p is returned.
CurveFit(N, status, p) ==
    IF N = 0 THEN [err |-> "ValueError", params |-> None]
    ELSE IF N < NumParams THEN [err |-> "TypeError", params |-> None]
    ELSE IF status \notin IerSuccess THEN [err |-> "RuntimeError", params |-> None]
    ELSE [err |-> NoError, params |-> p]

----------------------------------------------------------------------------
(* Inputs *)

\* main.py lines 30-33: the voltage extrema of the scan.
MainVxMin == -25
MainVxMax == 10
MainVyMin == 0
MainVyMax == 30

\* Largest number of rows and of columns of a grid handed to the locator.
MaxRows == 4
MaxCols == 6

\* Number of points in the coordinate arrays handed to model.
ModelPoints == 2

\* Largest X span (volts) and largest step (volts) of a generated raster; Y
\* spans are the small ones and those around the capacity of uint8.
MaxSpanX == 3
MaxSpanY == 3
MaxStep == 2

\* Baselines (params[6], hundredths) handed to the locator: negative, zero, positive.
LocateConsts == {-100, 0, 100, 220}

\* Grid values around the band of a baseline c: just below it, its two ends,
\* a value between them (for c = 2.2), and the baseline itself (above the
\* band when c > 0).
Levels(c) ==
    {(94 * c) \div 100, (95 * c) \div 100, (955 * c) \div 1000, (96 * c) \div 100, c}

\* The cells of a rows x cols grid that are not on its border.
Interior(rows, cols) == (1 .. rows - 2) \X (1 .. cols - 2)

\* Where the second level sits when the two levels vary: nowhere, on one
\* corner, on the whole interior, on one interior cell.
LevelPatterns(rows, cols) ==
    {{}, {<<0, 0>>}, Interior(rows, cols), Interior(rows, cols) \cap {<<1, 1>>}}

\* A shoulder of the dip: a positive baseline, with cells at the lower end
\* of its band on any set of interior cells.
ShoulderConst == 100
ShoulderLevel == (95 * ShoulderConst) \div 100

\* A grid with the double in on the cells of S and out elsewhere.
GridOfLevels(rows, cols, S, in, out) ==
    [r \in Range(rows) |-> [c \in Range(cols) |-> IF <<r, c>> \in S THEN in ELSE out]]


\* A grid with value fg on the cells of S and bg elsewhere.
TwoLevelGrid(rows, cols, S, fg, bg) == GridOfLevels(rows, cols, S, Param(fg), Param(bg))

\* Parameter tuples handed to model: amplitudes of both signs, widths that
\* vanish at X = -25 (beta = 0.1, b = 2.5) and widths that do not.
ModelParams ==
    { <<alpha, a, beta, b, 0, P0[6], P0[7]>> :
        alpha \in {-10, 10}, a \in {-200, 200}, beta \in {0, 10}, b \in {225, 250} }

ModelXs == {MainVxMin, 0, MainVxMax}
ModelYs == {MainVyMin, 8, MainVyMax}

Idle ==
    /\ scan = None /\ Vx_out = None /\ Vy_out = None /\ power_mW = None
    /\ ier = IerNotRun /\ err = NoError

----------------------------------------------------------------------------
(* The locator on a grid of its own: find_alignment_voltages as a function *)

InitLocate ==
    /\ Idle
    /\ pc = "fav_start"
    /\ Vx_min = MainVxMin /\ Vx_max = MainVxMax
    /\ Vy_min = MainVyMin /\ Vy_max = MainVyMax
    /\ Vx_step = None /\ Vy_step = None /\ data = None
    /\ xgrid = None /\ ygrid = None
    /\ \E rows \in 1 .. MaxRows, cols \in 1 .. MaxCols :
          \/ \E c \in LocateConsts, S \in LevelPatterns(rows, cols) :
                \E fg \in Levels(c), bg \in Levels(c) :
                   /\ fit = TwoLevelGrid(rows, cols, S, fg, bg)
                   /\ params = [P0 EXCEPT ![7] = c]
          \/ \E S \in SUBSET Interior(rows, cols) :
                /\ fit = TwoLevelGrid(rows, cols, S, ShoulderLevel, ShoulderConst)
                /\ params = [P0 EXCEPT ![7] = ShoulderConst]
    /\ keypoints_grid = None /\ local_max_cords = None /\ tip = None
    /\ voltage_array = None

NextLocate == FindAlignmentVoltages

SpecLocate == InitLocate /\ [][NextLocate]_vars

----------------------------------------------------------------------------
(* The model function on coordinate arrays *)

\* model(data, *params), lines 49-70.
EvalModel ==
    /\ pc = "model_start"
    /\ fit' = Model1D(data, params)
    /\ pc' = "model_done"
    /\ UNCHANGED <<scan, Vx_out, Vy_out, power_mW, Vx_min, Vx_max, Vy_min, Vy_max,
                   Vx_step, Vy_step, data, params, xgrid, ygrid, ier, err,
                   keypoints_grid, local_max_cords, tip, voltage_array>>

InitModel ==
    /\ Idle
    /\ pc = "model_start"
    /\ Vx_min = None /\ Vx_max = None /\ Vy_min = None /\ Vy_max = None
    /\ Vx_step = None /\ Vy_step = None
    /\ \E X \in [1 .. ModelPoints -> ModelXs], Y \in [1 .. ModelPoints -> ModelYs] :
          data = << [i \in 1 .. ModelPoints |-> F64FromInt(X[i])],
                    [i \in 1 .. ModelPoints |-> F64FromInt(Y[i])] >>
    /\ params \in ModelParams
    /\ xgrid = None /\ ygrid = None /\ fit = None
    /\ keypoints_grid = None /\ local_max_cords = None /\ tip = None
    /\ voltage_array = None

NextModel == EvalModel

SpecModel == InitModel /\ [][NextModel]_vars

----------------------------------------------------------------------------
(* The raster generator *)

InitRaster ==
    /\ Idle
    /\ pc = "gva_start"
    /\ Vx_min \in {MainVxMin, 0}
    /\ \E span \in 0 .. MaxSpanX : Vx_max = Vx_min + span
    /\ Vy_min = MainVyMin
    /\ \E span \in (0 .. MaxSpanY) \cup {UInt8Mod - 1, UInt8Mod, UInt8Mod + 1} :
          Vy_max = Vy_min + span
    /\ Vx_step \in 1 .. MaxStep
    /\ Vy_step \in 1 .. MaxStep
    /\ data = None /\ params = None /\ xgrid = None /\ ygrid = None /\ fit = None
    /\ keypoints_grid = None /\ local_max_cords = None /\ tip = None
    /\ voltage_array = None

NextRaster == GetVoltageArrayWrap \/ GetVoltageArrayStrict

SpecRaster == InitRaster /\ [][NextRaster]_vars

----------------------------------------------------------------------------
(* main.py: load_data, fit_scan_data, find_alignment_voltages, the plots *)

\* Largest number of rows in a scan file.
MaxSamples == 10

\* The k-th distinct measurement of a scan: the columns of the file main uses
\* (Vx, Vy in volts, power in hundredths of a watt).  The index, time and
\* position columns are unpacked by load_data and not used again.
Row(k) ==
    [Vx |-> MainVxMin + ((k - 1) \div 2), Vy |-> MainVyMin + ((k - 1) % 2), power |-> k]

\* A scan file of len rows: `distinct` different measurements, then
\* repetitions of the last of them.
ScanOf(len, distinct) == [i \in 1 .. len |-> Row(Min2(i, distinct))]

\* Numbers of distinct measurements: one, one fewer than the parameters of
\* the model, as many as the parameters, and every row a different one.
DistinctCounts == {1, NumParams - 1, NumParams, MaxSamples}

ScanFiles == { ScanOf(len, distinct) : len \in 0 .. MaxSamples, distinct \in DistinctCounts }

\* Parameters the solver may settle on: the seed itself, an amplitude clamped
\* to zero over the whole mesh, no amplitude at all, and a zero baseline with
\* a zero width.
FitOutcomes ==
    { P0,
      <<-10, -300, 10, 225, 0, 800, 580>>,
      <<0, 0, 10, 225, 0, 800, 580>>,
      <<0, 0, 0, 0, 0, 800, 0>> }

\* main line 41: load_data(path), lines 36-47.
LoadData ==
    /\ pc = "main_start"
    /\ \/ /\ LoadTxtIs2D(scan)
          /\ Vx_out' = [i \in 1 .. Len(scan) |-> scan[i].Vx]
          /\ Vy_out' = [i \in 1 .. Len(scan) |-> scan[i].Vy]
          /\ power_mW' = [i \in 1 .. Len(scan) |-> scan[i].power * MilliPerUnit]
          /\ pc' = "loaded"
          /\ UNCHANGED err
       \/ /\ ~LoadTxtIs2D(scan)
          /\ err' = "IndexError"
          /\ pc' = "raised"
          /\ UNCHANGED <<Vx_out, Vy_out, power_mW>>
    /\ UNCHANGED <<scan, Vx_min, Vx_max, Vy_min, Vy_max, Vx_step, Vy_step, data,
                   params, xgrid, ygrid, fit, ier, keypoints_grid, local_max_cords,
                   tip, voltage_array>>

\* main lines 44-45: fit_scan_data(model, Vx_out, Vy_out, power_mW, ...),
\* lines 89-99.  The solver's status and its best parameters are the
\* library's answer; an exception of curve_fit leaves the function, and main,
\* with nothing returned.
FitScanData ==
    /\ pc = "loaded"
    /\ \E status \in IerStatuses, p \in FitOutcomes :
          \E xg  \in {Linspace(Vx_min, Vx_max + 1, GridN(Len(Vx_out)))},
             yg  \in {Linspace(Vy_min, Vy_max + 1, GridN(Len(Vx_out)))},
             res \in {CurveFit(Len(Vx_out), status, p)} :
              /\ ier' = IF Len(Vx_out) < NumParams THEN IerNotRun ELSE status
              /\ \/ /\ res.err = NoError
                    /\ params' = res.params
                    /\ xgrid' = MeshX(xg, yg)
                    /\ ygrid' = MeshY(xg, yg)
                    /\ fit' = Model2D(MeshX(xg, yg), MeshY(xg, yg), res.params)
                    /\ pc' = "fitted"
                    /\ UNCHANGED err
                 \/ /\ res.err # NoError
                    /\ err' = res.err
                    /\ pc' = "raised"
                    /\ UNCHANGED <<params, xgrid, ygrid, fit>>
    /\ UNCHANGED <<scan, Vx_out, Vy_out, power_mW, Vx_min, Vx_max, Vy_min, Vy_max,
                   Vx_step, Vy_step, data, keypoints_grid, local_max_cords, tip,
                   voltage_array>>

\* main line 48: find_alignment_voltages on the fitted grid.
MainLocate ==
    /\ pc = "fitted"
    /\ \E order \in PeakOrders :
          \E out \in {Locate(fit, params, Vx_min, Vx_max, Vy_min, Vy_max, order)} :
              /\ keypoints_grid' = out.keypoints_grid
              /\ local_max_cords' = out.local_max_cords
              /\ tip' = out.tip
    /\ pc' = "located"
    /\ UNCHANGED <<scan, Vx_out, Vy_out, power_mW, Vx_min, Vx_max, Vy_min, Vy_max,
                   Vx_step, Vy_step, data, params, xgrid, ygrid, fit, ier, err,
                   voltage_array>>

\* main line 53 (plotting = True, line 35): plot_raw3D draws the samples and
\* ends in plt.show(), which returns when the window is closed.
PlotRaw3D ==
    /\ pc = "located"
    /\ pc' = "raw_plotted"
    /\ UNCHANGED <<scan, Vx_out, Vy_out, power_mW, Vx_min, Vx_max, Vy_min, Vy_max,
                   Vx_step, Vy_step, data, params, xgrid, ygrid, fit, ier, err,
                   keypoints_grid, local_max_cords, tip, voltage_array>>

\* main line 54: plot_fit_model3D draws the fitted surface and ends in
\* plt.show().
PlotFitModel3D ==
    /\ pc = "raw_plotted"
    /\ pc' = "fit_plotted"
    /\ UNCHANGED <<scan, Vx_out, Vy_out, power_mW, Vx_min, Vx_max, Vy_min, Vy_max,
                   Vx_step, Vy_step, data, params, xgrid, ygrid, fit, ier, err,
                   keypoints_grid, local_max_cords, tip, voltage_array>>

\* visualizers.py lines 93-94: ticks every 5 volts.
TickVolts == 5

\* Lines 93-94: num_ticks = (V_max - V_min)/5 + 1, a float, as <<num, den>>.
NumTicks(vmin, vmax) == <<vmax - vmin + TickVolts, TickVolts>>

\* Lines 95-96: the number of tick positions np.linspace(0, width, num_ticks)
\* gives when it accepts a float count: int(num_ticks).
TickCount(vmin, vmax) == IntDiv(NumTicks(vmin, vmax)[1], NumTicks(vmin, vmax)[2])

\* Lines 98-99: the length of np.arange(V_min, V_max + 1, num_ticks):
\* ceil((V_max + 1 - V_min) / num_ticks).
LabelCount(vmin, vmax) ==
    LET t == NumTicks(vmin, vmax)
    IN  ((vmax + 1 - vmin) * t[2] + t[1] - 1) \div t[1]

\* How np.linspace takes a float for its count: "index" refuses it
\* (operator.index, TypeError), "int" truncates it with a warning (the older
\* releases).
LinspaceCounts == {"index", "int"}

\* Lines 93-101 of plot_tip_location: with a linspace that refuses a float
\* count line 95 raises TypeError; otherwise plt.xticks / plt.yticks raise
\* ValueError when the tick positions and the labels differ in number.
PlotTipOutcome(linspace, xmin, xmax, ymin, ymax) ==
    IF linspace = "index" THEN "TypeError"
    ELSE IF \/ TickCount(xmin, xmax) # LabelCount(xmin, xmax)
            \/ TickCount(ymin, ymax) # LabelCount(ymin, ymax)
         THEN "ValueError"
         ELSE NoError

\* main lines 55-58: plot_tip_location, then the return of
\* (tip_x_inVolts, tip_y_inVolts) when the plot has not raised.
PlotTipLocation ==
    /\ pc = "fit_plotted"
    /\ \E linspace \in LinspaceCounts :
          LET outcome == PlotTipOutcome(linspace, Vx_min, Vx_max, Vy_min, Vy_max)
          IN  /\ err' = outcome
              /\ pc' = IF outcome = NoError THEN "main_done" ELSE "raised"
    /\ UNCHANGED <<scan, Vx_out, Vy_out, power_mW, Vx_min, Vx_max, Vy_min, Vy_max,
                   Vx_step, Vy_step, data, params, xgrid, ygrid, fit, ier,
                   keypoints_grid, local_max_cords, tip, voltage_array>>

Init ==
    /\ pc = "main_start"
    /\ scan \in ScanFiles
    /\ Vx_out = None /\ Vy_out = None /\ power_mW = None
    /\ Vx_min = MainVxMin /\ Vx_max = MainVxMax
    /\ Vy_min = MainVyMin /\ Vy_max = MainVyMax
    /\ Vx_step = None /\ Vy_step = None /\ data = None
    /\ params = None /\ xgrid = None /\ ygrid = None /\ fit = None
    /\ ier = IerNotRun /\ err = NoError
    /\ keypoints_grid = None /\ local_max_cords = None /\ tip = None
    /\ voltage_array = None

Next ==
    \/ LoadData
    \/ FitScanData
    \/ MainLocate
    \/ PlotRaw3D
    \/ PlotFitModel3D
    \/ PlotTipLocation

Spec == Init /\ [][Next]_vars

----------------------------------------------------------------------------
(* Properties of the locator (SpecLocate) *)

\* The candidates peak_local_max returned, whatever their order.
CandidateSet == { local_max_cords[i] : i \in 1 .. Len(local_max_cords) }

\* The column index of the last of the m leftmost candidates: the smallest
\* column t such that at least m candidates have a column <= t.
CutColumn(cands, m) ==
    CHOOSE t \in { rc[2] : rc \in cands } :
        /\ Cardinality({ rc \in cands : rc[2] <= t }) >= m
        /\ Cardinality({ rc \in cands : rc[2] < t }) < m

\* Whether more candidates share the cut-off column than are selected from it.
TieAtCut(cands, m) ==
    /\ cands # {}
    /\ LET t == CutColumn(cands, m)
       IN  Cardinality({ rc \in cands : rc[2] <= t }) > m

RECURSIVE SumOver(_, _)
SumOver(S, k) ==
    IF S = {} THEN 0
    ELSE LET rc == CHOOSE rc \in S : TRUE IN rc[k] + SumOver(S \ {rc}, k)

\* Whether the mean m is the arithmetic mean of coordinate k over the set S.
IsMeanOf(m, S, k) == ~m.nan /\ m.num * Cardinality(S) = SumOver(S, k) * m.den

SameMean(m1, m2) == m1.nan = m2.nan /\ m1.num * m2.den = m2.num * m1.den

\* The tip find_alignment_voltages computes when the peaks of the mask at
\* hand are listed in the given order.
TipInOrder(order) ==
    TipOf(PeakLocalMax(keypoints_grid, order), fit, Vx_min, Vx_max, Vy_min, Vy_max)

\* C1: whenever the candidate set is empty, find_alignment_voltages ends in a
\* NoAlignmentSignal error and hands no tip (coordinate or placeholder) back.
C1_EmptyRaisesNoAlignmentSignal ==
    (pc \in {"fav_done", "raised"} /\ PeakCells(KeypointsGrid(fit, Param(params[7]))) = {})
        => (pc = "raised" /\ err = "NoAlignmentSignal" /\ tip = None)

\* C2: with k >= 1 candidates, the min(5, k) candidates of smallest column
\* index are selected (no candidate left of a selected one is left out);
\* tip_x is the mean of their columns and tip_y the mean of their rows.
C2_LeftmostMean ==
    (pc = "fav_done" /\ local_max_cords # <<>>) =>
        LET cands == CandidateSet
            k     == Cardinality(cands)
            m     == Min2(5, k)
            t     == CutColumn(cands, m)
            left  == { rc \in cands : rc[2] < t }
            onCut == { rc \in cands : rc[2] = t }
        IN  /\ k = Len(local_max_cords)
            /\ \E T \in SUBSET onCut :
                  /\ Cardinality(T) = m - Cardinality(left)
                  /\ IsMeanOf(tip.tip_x, left \cup T, 2)
                  /\ IsMeanOf(tip.tip_y, left \cup T, 1)

\* More than five candidates, so that the selection leaves some out.
C2_Witness ==
    /\ pc = "fav_done"
    /\ Len(local_max_cords) > 5
    /\ ~tip.tip_x.nan

\* The number (-1)^neg * M * 2^e a double stands for, and K times such a
\* number for a natural number K in limbs, neither of them rounded.
Exact(a) == [neg |-> a.neg, M |-> a.m, e |-> a.e]
ExactTimes(K, x) == [neg |-> x.neg, M |-> BMul(K, x.M), e |-> x.e]

\* x <= y for two such numbers whose magnitudes X and Y are written on the
\* same power of 2.
ExactLeAligned(xneg, X, yneg, Y) ==
    IF X = <<>> THEN (Y = <<>> \/ ~yneg)
    ELSE IF Y = <<>> THEN xneg
    ELSE IF xneg # yneg THEN xneg
    ELSE IF xneg THEN BCmp(X, Y) >= 0
    ELSE BCmp(X, Y) <= 0

\* x <= y, exactly.
ExactLe(x, y) ==
    ExactLeAligned(x.neg, BShl(x.M, x.e - Min2(x.e, y.e)),
                   y.neg, BShl(y.M, y.e - Min2(x.e, y.e)))

\* Bits of the slack left for the rounding of the ends of the band: lines
\* 125-126 compute each end with three or four roundings, within
\* |const| * 2^-SlackBits of the exact end.
SlackBits == 52

\* 100 * 2^SlackBits times the end pct/100 * const of the band, moved by
\* slack * |const| * 2^-SlackBits (slack is -1, 0 or 1).
BandEnd(pct, slack, const) ==
    ExactTimes(IF (slack = 1) = const.neg
               THEN BSub(BShl(BFromNat(pct), SlackBits), BFromNat(ParamScale * Abs(slack)))
               ELSE BAdd(BShl(BFromNat(pct), SlackBits), BFromNat(ParamScale * Abs(slack))),
               Exact(const))

\* 100 * 2^SlackBits times a grid value.
CellTimes(el) == ExactTimes(BShl(BFromNat(ParamScale), SlackBits), Exact(el))

\* Percent of the baseline at the two ends of the band: 100*(1-H) and
\* 100*(1-(H-0.01)) with H = 0.05.
LowerPercent == ParamScale - HPercent
UpperPercent == ParamScale - (HPercent - BandPercent)

\* const*(1-H) + slackLow <= el <= const*(1-(H-0.01)) + slackHigh in real
\* numbers, on the values the doubles const and el stand for; a slack is
\* given in units of |const| * 2^-SlackBits.
InRealBand(el, const, slackLow, slackHigh) ==
    /\ el.kind = "num"
    /\ ExactLe(BandEnd(LowerPercent, slackLow, const), CellTimes(el))
    /\ ExactLe(CellTimes(el), BandEnd(UpperPercent, slackHigh, const))

C10_OrderIndependent ==
    pc = "fav_done" =>
        \A order \in PeakOrders :
            LET other == TipInOrder(order)
            IN  SameMean(tip.tip_x, other.tip_x) /\ SameMean(tip.tip_y, other.tip_y)

\* C10 amended: tip_x is the same for every order in which the peaks may be
\* listed; tip_y is the same unless more candidates share the cut-off column
\* than are selected from it.
C10_OrderIndependentUpToTies ==
    pc = "fav_done" =>
        \A order \in PeakOrders :
            LET other == TipInOrder(order)
                cands == CandidateSet
            IN  /\ SameMean(tip.tip_x, other.tip_x)
                /\ ~TieAtCut(cands, Min2(5, Cardinality(cands)))
                      => SameMean(tip.tip_y, other.tip_y)

\* More than five candidates, listed in another order by the other release
\* of the library, none of them competing for the last selected place.
C10_Witness ==
    /\ pc = "fav_done"
    /\ Len(local_max_cords) > 5
    /\ ~TieAtCut(CandidateSet, 5)
    /\ \E order \in PeakOrders : PeakLocalMax(keypoints_grid, order) # local_max_cords

----------------------------------------------------------------------------
(* Properties of the model function (SpecModel) *)

\* C5: wherever alpha*Vx + a < 0 the model returns exactly const, for every
\* Vy, also where the width beta*Vx + b is zero and where Vy equals d.
C5_ClampGivesConst ==
    pc = "model_done" =>
        \A i \in DOMAIN fit :
            F64Lt(F64Add(F64Mul(Param(params[1]), data[1][i]), Param(params[2])), F64Zero)
                => fit[i] = Param(params[7])

----------------------------------------------------------------------------
(* Properties of the raster generator (SpecRaster) *)

\* C9: the output is a boustrophedon raster of (Nx+1)*(Ny+1) pairs: pair i
\* has Vx = Vx_min + Vx_step*floor(i/(Ny+1)); Vy ascends in even columns and
\* descends in odd ones; every (column, row) point is visited exactly once;
\* consecutive pairs differ in exactly one coordinate, by exactly one step.
C9_Boustrophedon ==
    pc \in {"gva_done", "raised"} =>
        /\ pc = "gva_done"
        /\ LET Nx == (Vx_max - Vx_min) \div Vx_step
               Ny == (Vy_max - Vy_min) \div Vy_step
               n  == (Nx + 1) * (Ny + 1)
               va == voltage_array
           IN  /\ DOMAIN va = 0 .. (n - 1)
               /\ \A i \in 0 .. (n - 1) :
                     LET col == i \div (Ny + 1)
                         k   == i % (Ny + 1)
                     IN  /\ va[i][1] = Vx_min + Vx_step * col
                         /\ va[i][2] = Vy_min + Vy_step * (IF col % 2 = 0 THEN k ELSE Ny - k)
               /\ \A col \in 0 .. Nx, row \in 0 .. Ny :
                     Cardinality({ i \in 0 .. (n - 1) :
                         va[i] = <<Vx_min + Vx_step * col, Vy_min + Vy_step * row>> }) = 1
               /\ \A i \in 0 .. (n - 2) :
                     \/ va[i][1] = va[i + 1][1] /\ Abs(va[i][2] - va[i + 1][2]) = Vy_step
                     \/ va[i][2] = va[i + 1][2] /\ Abs(va[i][1] - va[i + 1][1]) = Vx_step

----------------------------------------------------------------------------
(* Properties of the pipeline (Spec) *)

\* Number of samples handed to fit_scan_data.
SampleCount == Len(Vx_out)

\* The distinct (Vx, Vy, power) samples handed to fit_scan_data.
DistinctSamples == { <<Vx_out[i], Vy_out[i], power_mW[i]>> : i \in 1 .. Len(Vx_out) }

\* Whether index j of an axis of n mesh points from lo to hi volts comes
\* back within one cell: j is turned into volts by the locator's conversion
\* (v hundredths of a volt) and v is turned into an index by the inverse of
\* the mesh's affine map, (v/100 - lo) * (n - 1) / (hi - lo).
BackWithinOneCell(j, v, lo, hi, n) ==
    Abs((v - CentiPerVolt * lo) * (n - 1) - j * CentiPerVolt * (hi - lo))
        <= CentiPerVolt * (hi - lo)

\* C3: every grid index j of either axis, converted to volts by the locator
\* and back to an index by the inverse of the mesh's affine map, is recovered
\* within one cell.
C3_RoundTripWithinOneCell ==
    pc = "fitted" =>
        LET n == Cols(fit)
        IN  /\ xgrid[0][0] = F64FromInt(Vx_min) /\ xgrid[0][n - 1] = F64FromInt(Vx_max + 1)
            /\ ygrid[0][0] = F64FromInt(Vy_min) /\ ygrid[n - 1][0] = F64FromInt(Vy_max + 1)
            /\ \A j \in Range(n) :
                  LET idx == [nan |-> FALSE, num |-> j, den |-> 1]
                      vx  == IndexToVolts(Vx_min, Vx_max, idx, Cols(fit)).centi
                      vy  == IndexToVolts(Vy_min, Vy_max, idx, Rows(fit)).centi
                  IN  /\ BackWithinOneCell(j, vx, Vx_min, Vx_max + 1, n)
                      /\ BackWithinOneCell(j, vy, Vy_min, Vy_max + 1, n)

\* C4 as stated: the fitted grid has n = 10*ceil(sqrt(N)) points per axis.
C4_GridIsTenCeilSqrt ==
    pc = "fitted" =>
        /\ Rows(fit) = 10 * CeilSqrt(SampleCount)
        /\ Cols(fit) = 10 * CeilSqrt(SampleCount)

\* C4 amended: whenever fit_scan_data returns, the fitted grid and its mesh
\* are square with n = 10*floor(sqrt(N)) points per axis, N the number of
\* samples; rows follow Vy and columns follow Vx.
C4_GridIsTenFloorSqrt ==
    pc = "fitted" =>
        \E k \in 0 .. SampleCount :
            /\ k * k <= SampleCount
            /\ (k + 1) * (k + 1) > SampleCount
            /\ DOMAIN fit = Range(10 * k)
            /\ DOMAIN xgrid = Range(10 * k)
            /\ DOMAIN ygrid = Range(10 * k)
            /\ \A r \in Range(10 * k) :
                  /\ DOMAIN fit[r] = Range(10 * k)
                  /\ DOMAIN xgrid[r] = Range(10 * k)
                  /\ DOMAIN ygrid[r] = Range(10 * k)
                  /\ \A c \in Range(10 * k) :
                        /\ xgrid[r][c] = xgrid[0][c]
                        /\ ygrid[r][c] = ygrid[r][0]
                        /\ c > 0 => F64Lt(xgrid[r][c - 1], xgrid[r][c])
                        /\ r > 0 => F64Lt(ygrid[r - 1][c], ygrid[r][c])

\* A fit of a sample count that is not a perfect square.
C4_Witness ==
    /\ pc = "fitted"
    /\ \A k \in 0 .. SampleCount : k * k # SampleCount

\* C6: with fewer than 7 distinct samples fit_scan_data fails (with an
\* error, whatever its name) and returns neither parameters nor a grid,
\* also when 7 samples or more are supplied.
C6_FewDistinctSamplesRejected ==
    (pc \notin {"main_start", "loaded"} /\ Vx_out # None
            /\ Cardinality(DistinctSamples) < 7)
        => (pc = "raised" /\ err # NoError /\ params = None /\ fit = None)

\* C7: when the solver stops on its evaluation budget, fit_scan_data raises
\* the fit failure and returns neither parameters (the seed included) nor a
\* grid, and the locator is not run.
C7_NoFitOnMaxfev ==
    ier = IerMaxfev =>
        /\ pc = "raised"
        /\ err = "RuntimeError"
        /\ params = None
        /\ xgrid = None /\ ygrid = None /\ fit = None
        /\ keypoints_grid = None /\ local_max_cords = None /\ tip = None

\* The solver has stopped on its budget on a scan with enough samples.
C7_Witness ==
    /\ ier = IerMaxfev
    /\ pc = "raised"
    /\ SampleCount >= NumParams

====
